---- MODULE Spec2Model ----
(***************************************************************************)
(* Generation request lifecycle of the Mini AI Studio.                     *)
(*                                                                         *)
(*   SpecStudio : the client generation controller (Studio.tsx): submit,   *)
(*                retry on 'Model overloaded', cancel.  The network is a   *)
(*                mock that may answer each createGeneration call with a   *)
(*                success or with any rejection.                           *)
(*   SpecServer : the Job API, the Job Record Store and the Job Processor  *)
(*                (generationsController.ts, models/Generation).           *)
(***************************************************************************)
EXTENDS Integers, Sequences, FiniteSets, TLC

\* JavaScript's null, for each kind of value the model holds.
NoFile == [name |-> "", type |-> ""]    \* selectedFile === null
NoController == 0                       \* abortController === null
NoText == <<>>                          \* no message (null, undefined or '')

(***************************************************************************)
(* Bounds of the model.                                                    *)
(***************************************************************************)
MaxCalls == 4        \* createGeneration calls issued by one Studio instance
MaxSubmits == 2      \* user clicks on the Generate button
MaxSignups == 3      \* POST /api/auth/signup requests
MaxJobs == 2         \* rows inserted into the generations table

(***************************************************************************)
(* Program constants.                                                      *)
(***************************************************************************)
MAX_RETRIES == 3

VARIABLES
    \* ---- Studio.tsx: React state of one Studio instance
    selectedFile,     \* NoFile or the attached file
    prompt,           \* the textarea content, a sequence of characters
    style,            \* the selected style option
    isGenerating,
    error,            \* the displayed message, see NoError and Retrying
    retryCount,
    abortController,  \* NoController or the id of the stored AbortController
    \* ---- Studio.tsx: what the JavaScript runtime holds
    calls,            \* activations of handleGenerate that passed the guard;
                      \* calls[i] issued the i-th createGeneration call and
                      \* owns AbortController i; calls[i].reply tells how
                      \* the call ended: "pending", "ok", "overloaded" (a
                      \* message with 'Model overloaded'), "error", "aborted";
                      \* calls[i].list tells how its getGenerations(5)
                      \* request ended: "" (none), "pending", "ok", "failed"
    aborted,          \* ids of the AbortControllers whose signal is aborted
    \* ---- history of the user's actions
    submits,          \* clicks on Generate so far
    cancelled,        \* TRUE from a click on Stop until the next click on Generate
    \* ---- backend
    isTest,           \* process.env.NODE_ENV === 'test'
    generations,      \* the generations table: id -> row
    tasks,            \* processGeneration activations: id -> task
    clock,            \* CURRENT_TIMESTAMP, in seconds
    lastResponse,     \* the HTTP response a handler has just sent, with its
                      \* request (user, id, limit); NoResponse once the event loop has moved on
    \* ---- backend: accounts
    users,            \* the users table: id -> row
    signups,          \* activations of the signup handler: a sequence of tasks
    \* ---- backend: routers
    lastRequest       \* the request a router has just dispatched: route,
                      \* token and input; NoRequest once its response is sent

studioVars == <<selectedFile, prompt, style, isGenerating, error, retryCount,
                abortController, calls, aborted, submits, cancelled>>
serverVars == <<isTest, generations, tasks, clock, lastResponse>>
authVars == <<users, signups, lastRequest>>
vars == <<studioVars, serverVars, authVars>>

(***************************************************************************)
(* Strings.  A text is a sequence of characters or of words, so that       *)
(* trim() and includes() are computed and not assumed.                     *)
(***************************************************************************)
RECURSIVE TrimStart(_)
TrimStart(s) == IF s # <<>> /\ Head(s) = " " THEN TrimStart(Tail(s)) ELSE s

RECURSIVE TrimEnd(_)
TrimEnd(s) ==
    IF s # <<>> /\ s[Len(s)] = " " THEN TrimEnd(SubSeq(s, 1, Len(s) - 1)) ELSE s

Trim(s) == TrimEnd(TrimStart(s))

Includes(text, part) ==
    \E k \in 0..(Len(text) - Len(part)) : SubSeq(text, k + 1, k + Len(part)) = part

ModelOverloaded == <<"Model", "overloaded">>
GenerationFailed == <<"Generation", "failed">>
SelectPrompt == <<"Please", "select", "an", "image", "and", "enter", "a", "prompt">>
SelectJpegPng == <<"Please", "select", "a", "JPEG", "or", "PNG", "image">>

\* The values of the `error` state.
NoError == <<>>
Retrying(message, k) ==
    message \o <<".", "Retrying...", "(", ToString(k), "/", ToString(MAX_RETRIES), ")">>

\* What the user can type, attach and be answered in the model.
Prompts == { <<" ">>, <<" ", "b">> }
Files == { [name |-> "cat.png", type |-> "image/png"],
           [name |-> "cat.gif", type |-> "image/gif"] }
Styles == { "realistic", "vintage" }
ServerMessages == { ModelOverloaded,
                    <<"Server", "busy:", "Model", "overloaded">>,
                    <<"Invalid", "prompt">>,
                    NoText }
\* Names of the error a createGeneration call is rejected with once its
\* signal is aborted: the one handleGenerate tests for, and the one of
\* axios, the transport api.ts hands the signal to.
AbortNames == { "AbortError", "CanceledError" }

(***************************************************************************)
(* Studio.tsx                                                              *)
(***************************************************************************)
validateFile(file) ==
    IF file.type \notin {"image/jpeg", "image/jpg", "image/png"}
    THEN SelectJpegPng
    ELSE NoText

\* The upload zone (click or drop) is rendered while no file is attached.
handleFileSelect(file) ==
    /\ selectedFile = NoFile
    /\ LET err == validateFile(file) IN
       IF err # NoText
       THEN /\ error' = err
            /\ UNCHANGED selectedFile
       ELSE /\ selectedFile' = file
            /\ error' = NoError
    /\ UNCHANGED <<prompt, isGenerating, retryCount, abortController, calls,
                   aborted, submits, cancelled,
                   style, serverVars, authVars>>

clearFile ==
    /\ selectedFile # NoFile
    /\ selectedFile' = NoFile
    /\ UNCHANGED <<prompt, isGenerating, error, retryCount, abortController,
                   calls, aborted, submits, cancelled,
                   style, serverVars, authVars>>

setPrompt(p) ==
    /\ ~isGenerating
    /\ p # prompt
    /\ prompt' = p
    /\ UNCHANGED <<selectedFile, isGenerating, error, retryCount,
                   abortController, calls, aborted, submits, cancelled,
                   style, serverVars, authVars>>

\* The style radio buttons: disabled={isGenerating}
setStyle(v) ==
    /\ ~isGenerating
    /\ v # style
    /\ style' = v
    /\ UNCHANGED <<selectedFile, prompt, isGenerating, error, retryCount,
                   abortController, calls, aborted, submits, cancelled,
                   serverVars, authVars>>

\* The values one render of Studio gives to the closures it creates.
Render(n) ==
    [selectedFile |-> selectedFile, prompt |-> prompt, style |-> style,
     retryCount |-> retryCount, abortController |-> abortController,
     submit |-> n]

GuardPasses(cl) == cl.selectedFile # NoFile /\ Trim(cl.prompt) # <<>>

\* The activation handleGenerate starts in closure cl, up to its first await.
NewCall(cl) ==
    [pc |-> "create", closure |-> cl, reply |-> "pending", list |-> "",
     data |-> [prompt |-> Trim(cl.prompt), style |-> cl.style,
               image |-> cl.selectedFile]]

\* An activation that has returned: the runtime keeps nothing of it but the
\* way its call ended.
Returned(c) ==
    [pc |-> "done",
     closure |-> [selectedFile |-> NoFile, prompt |-> <<>>, style |-> "",
                  retryCount |-> 0, abortController |-> NoController,
                  submit |-> 0],
     reply |-> c.reply, list |-> c.list,
     data |-> [prompt |-> <<>>, style |-> "", image |-> NoFile]]

\* handleGenerate, from its call to its first await, in closure cl; cs is
\* the calls sequence the activation is added to.
handleGenerate(cl, cs) ==
    IF ~GuardPasses(cl)
    THEN /\ error' = SelectPrompt
         /\ calls' = cs
         /\ UNCHANGED <<isGenerating, abortController>>
    ELSE /\ Len(cs) < MaxCalls
         /\ isGenerating' = TRUE
         /\ error' = NoError
         /\ abortController' = Len(cs) + 1
         /\ calls' = Append(cs, NewCall(cl))

\* The Generate button: disabled={!selectedFile || !prompt.trim() || isGenerating}
GenerateEnabled == selectedFile # NoFile /\ Trim(prompt) # <<>> /\ ~isGenerating

ClickGenerate ==
    /\ GenerateEnabled
    /\ submits < MaxSubmits
    /\ handleGenerate(Render(submits + 1), calls)
    /\ submits' = submits + 1
    /\ cancelled' = FALSE
    /\ UNCHANGED <<selectedFile, prompt, retryCount, aborted,
                   style, serverVars, authVars>>

\* A click on the Generate button while it is disabled: the browser
\* dispatches no click event, so onClick={handleGenerate} does not run.
ClickGenerateDisabled ==
    /\ ~GenerateEnabled
    /\ submits < MaxSubmits
    /\ submits' = submits + 1
    /\ UNCHANGED <<selectedFile, prompt, isGenerating, error, retryCount,
                   abortController, calls, aborted, cancelled,
                   style, serverVars, authVars>>

\* createGeneration of activation i resolves: handleGenerate goes on to
\* await loadRecentGenerations().
CreateResolves(i) ==
    /\ calls[i].pc = "create"
    /\ calls' = [calls EXCEPT ![i].pc = "reload", ![i].reply = "ok",
                              ![i].list = "pending"]
    /\ UNCHANGED <<selectedFile, prompt, isGenerating, error, retryCount,
                   abortController, aborted, submits, cancelled,
                   style, serverVars, authVars>>

\* Mutant: loadRecentGenerations lets the rejection through to the catch
\* block of handleGenerate.
loadRecentGenerations_Throws(i, ok) ==
    /\ calls[i].pc = "reload"
    /\ retryCount' = 0
    /\ isGenerating' = FALSE
    /\ abortController' = NoController
    /\ error' = IF ok THEN error ELSE GenerationFailed
    /\ calls' = [calls EXCEPT ![i] =
          Returned([calls[i] EXCEPT !.list = IF ok THEN "ok" ELSE "failed"])]
    /\ UNCHANGED <<selectedFile, prompt, aborted, submits, cancelled,
                   style, serverVars, authVars>>

\* loadRecentGenerations settles: getGenerations(5) resolves (ok) or is
\* rejected, and loadRecentGenerations catches the rejection; then the rest
\* of the try block and the finally block of handleGenerate.
loadRecentGenerations(i, ok) ==
    /\ calls[i].pc = "reload"
    /\ retryCount' = 0
    /\ isGenerating' = FALSE
    /\ abortController' = NoController
    /\ calls' = [calls EXCEPT ![i] =
          Returned([calls[i] EXCEPT !.list = IF ok THEN "ok" ELSE "failed"])]
    /\ UNCHANGED <<selectedFile, prompt, error, aborted, submits, cancelled,
                   style, serverVars, authVars>>

ReloadSettles(i) == \E ok \in BOOLEAN : loadRecentGenerations(i, ok)

\* Mutant: the catch block retries whatever the message is.
CatchFinally_RetriesAll(i, name, message, cur) ==
    LET cl == calls[i].closure
        errorMessage == IF message # NoText THEN message ELSE GenerationFailed
    IN  IF name = "AbortError"
        THEN [error |-> cur.error, retryCount |-> cur.retryCount,
              timer |-> FALSE]
        ELSE IF cl.retryCount < MAX_RETRIES
        THEN [error |-> Retrying(errorMessage, cl.retryCount + 1),
              retryCount |-> cur.retryCount + 1,
              timer |-> TRUE]
        ELSE [error |-> errorMessage, retryCount |-> 0, timer |-> FALSE]

\* The state the catch and finally blocks of activation i leave, as a record
\* of the four state values they set, when createGeneration is rejected with
\* an error named `name` carrying server message `message` (or none); `cur`
\* holds the state values before the blocks run.
CatchFinally(i, name, message, cur) ==
    LET cl == calls[i].closure
        errorMessage == IF message # NoText THEN message ELSE GenerationFailed
    IN  IF name = "AbortError"
        THEN [error |-> cur.error, retryCount |-> cur.retryCount,
              timer |-> FALSE]
        ELSE IF Includes(errorMessage, ModelOverloaded)
                /\ cl.retryCount < MAX_RETRIES
        THEN [error |-> Retrying(errorMessage, cl.retryCount + 1),
              retryCount |-> cur.retryCount + 1,
              timer |-> TRUE]
        ELSE [error |-> errorMessage, retryCount |-> 0, timer |-> FALSE]

\* createGeneration of activation i is rejected by the server or the network.
CreateRejects(i, message) ==
    /\ calls[i].pc = "create"
    /\ LET r == CatchFinally(i, "AxiosError", message,
                             [error |-> error, retryCount |-> retryCount])
       IN  /\ error' = r.error
           /\ retryCount' = r.retryCount
           /\ calls' = [calls EXCEPT ![i] =
                  LET c == [calls[i] EXCEPT
                              !.reply = IF Includes(message, ModelOverloaded)
                                        THEN "overloaded" ELSE "error"]
                  IN  IF r.timer THEN [c EXCEPT !.pc = "timer"]
                      ELSE Returned(c)]
    /\ isGenerating' = FALSE
    /\ abortController' = NoController
    /\ UNCHANGED <<selectedFile, prompt, aborted, submits, cancelled,
                   style, serverVars, authVars>>

\* The retry timer of activation i fires: the callback tests the
\* abortController of its closure and calls the handleGenerate of its closure.
SignalAborted(cl) == cl.abortController # NoController /\ cl.abortController \in aborted

\* Mutant: the callback calls the handleGenerate of the current render.
TimerFires_CurrentRender(i) ==
    /\ calls[i].pc = "timer"
    /\ LET cs == [calls EXCEPT ![i] = Returned(calls[i])] IN
       IF ~SignalAborted(calls[i].closure)
       THEN handleGenerate(Render(calls[i].closure.submit), cs)
       ELSE /\ calls' = cs
            /\ UNCHANGED <<isGenerating, error, abortController>>
    /\ UNCHANGED <<selectedFile, prompt, retryCount, aborted, submits, cancelled,
                   style, serverVars, authVars>>

TimerFires(i) ==
    /\ calls[i].pc = "timer"
    /\ LET cs == [calls EXCEPT ![i] = Returned(calls[i])] IN
       IF ~SignalAborted(calls[i].closure)
       THEN handleGenerate(calls[i].closure, cs)
       ELSE /\ calls' = cs
            /\ UNCHANGED <<isGenerating, error, abortController>>
    /\ UNCHANGED <<selectedFile, prompt, retryCount, aborted, submits, cancelled,
                   style, serverVars, authVars>>

\* The Stop button is rendered while isGenerating.  handleAbort, followed by
\* the rejection it causes: aborting the signal rejects the createGeneration
\* call that carries it, and the catch block of that activation runs as soon
\* as handleAbort has returned.
handleAbort(name) ==
    /\ isGenerating
    /\ LET c == abortController
           hit == c # NoController /\ calls[c].pc = "create"
           r == CatchFinally(c, name, NoText, [error |-> NoError, retryCount |-> 0])
       IN  /\ aborted' = IF c # NoController THEN aborted \cup {c} ELSE aborted
           /\ error' = IF hit THEN r.error ELSE NoError
           /\ retryCount' = IF hit THEN r.retryCount ELSE 0
           /\ calls' = IF hit
                       THEN [calls EXCEPT ![c] =
                               Returned([calls[c] EXCEPT !.reply = "aborted"])]
                       ELSE calls
    /\ isGenerating' = FALSE
    /\ abortController' = NoController
    /\ cancelled' = TRUE
    /\ UNCHANGED <<selectedFile, prompt, submits,
                   style, serverVars, authVars>>

ClickStop == \E name \in AbortNames : handleAbort(name)

InitStudio ==
    /\ selectedFile = NoFile
    /\ prompt = <<>>
    /\ style = "realistic"
    /\ isGenerating = FALSE
    /\ error = NoError
    /\ retryCount = 0
    /\ abortController = NoController
    /\ calls = <<>>
    /\ aborted = {}
    /\ submits = 0
    /\ cancelled = FALSE

NextStudio ==
    \/ \E f \in Files : handleFileSelect(f)
    \/ clearFile
    \/ \E p \in Prompts : setPrompt(p)
    \/ ClickGenerate
    \/ \E i \in DOMAIN calls : CreateResolves(i)
    \/ \E i \in DOMAIN calls : ReloadSettles(i)
    \/ \E i \in DOMAIN calls, m \in ServerMessages : CreateRejects(i, m)
    \/ \E i \in DOMAIN calls : TimerFires(i)
    \/ ClickStop

\* The Studio with the style options, for a user who attaches valid images
\* and a server that answers a call with success, with 'Model overloaded'
\* or with another error.
NextForm ==
    \/ \E f \in { g \in Files : validateFile(g) = NoText } : handleFileSelect(f)
    \/ clearFile
    \/ \E p \in Prompts : setPrompt(p)
    \/ \E v \in Styles : setStyle(v)
    \/ ClickGenerate
    \/ \E i \in DOMAIN calls : CreateResolves(i)
    \/ \E i \in DOMAIN calls : ReloadSettles(i)
    \/ \E i \in DOMAIN calls, m \in {ModelOverloaded, <<"Invalid", "prompt">>} :
          CreateRejects(i, m)
    \/ \E i \in DOMAIN calls : TimerFires(i)
    \/ \E name \in {"CanceledError"} : handleAbort(name)

(***************************************************************************)
(* Backend: values                                                         *)
(***************************************************************************)
Users == {1, 2}       \* ids of the users table; every caller is authenticated

Repeat(c, n) == [i \in 1..n |-> c]

Min(a, b) == IF a < b THEN a ELSE b
Max(a, b) == IF a > b THEN a ELSE b

\* A path is the sequence of its segments; null is NoText.
Dirname(p) == SubSeq(p, 1, Len(p) - 1)
Basename(p) == p[Len(p)]
Join(dir, name) == Append(dir, name)
UploadUrl(p) == IF p # NoText THEN <<"/uploads", Basename(p)>> ELSE NoText

NoUpload == [mimetype |-> "", size |-> 0]     \* req.file is undefined
TenMB == 10 * 1024 * 1024

\* The POST /api/generations requests of the model: a valid one and two
\* invalid ones.
ValidRequests ==
    { [prompt |-> <<"a", " ", "c", "a", "t">>, style |-> "vintage",
       file |-> [mimetype |-> "image/png", size |-> TenMB]] }
InvalidRequests ==
    { [prompt |-> <<>>, style |-> "realistic",
       file |-> [mimetype |-> "image/png", size |-> 1024]],
      [prompt |-> <<"a">>, style |-> "realistic", file |-> NoUpload] }
CreateRequests == ValidRequests \cup InvalidRequests

\* The `limit` query strings of the model; NoText is an absent parameter.
LimitParams == { NoText, <<"1">>, <<"2", "x">> }

(***************************************************************************)
(* utils/validation.ts                                                     *)
(***************************************************************************)
\* createGenerationSchema.parse: the message of the first issue, or NoText.
createGenerationSchema(body) ==
    IF Len(body.prompt) < 1 THEN <<"Prompt", "is", "required">>
    ELSE IF Len(body.prompt) > 500 THEN <<"Prompt", "too", "long">>
    ELSE IF body.style \notin {"realistic", "artistic", "cartoon", "vintage"}
    THEN <<"Invalid", "style", "option">>
    ELSE NoText

\* Mutant: the size is tested before the type.
validateImageFile_SizeFirst(file) ==
    IF file.size > TenMB
    THEN <<"File", "size", "must", "be", "less", "than", "10MB">>
    ELSE IF file.mimetype \notin {"image/jpeg", "image/jpg", "image/png"}
    THEN <<"Only", "JPEG", "and", "PNG", "files", "are", "allowed">>
    ELSE NoText

validateImageFile(file) ==
    IF file.mimetype \notin {"image/jpeg", "image/jpg", "image/png"}
    THEN <<"Only", "JPEG", "and", "PNG", "files", "are", "allowed">>
    ELSE IF file.size > TenMB
    THEN <<"File", "size", "must", "be", "less", "than", "10MB">>
    ELSE NoText

Digits == <<"0", "1", "2", "3", "4", "5", "6", "7", "8", "9">>
IsDigit(c) == \E d \in 1..10 : Digits[d] = c
DigitValue(c) == (CHOOSE d \in 1..10 : Digits[d] = c) - 1

\* parseInt(val, 10): leading blanks are skipped, a sign is read, and the
\* value is that of the longest prefix of digits that follows; NaN when that
\* prefix is empty.
RECURSIVE ParsePrefix(_, _)
ParsePrefix(val, acc) ==
    IF val # <<>> /\ IsDigit(Head(val))
    THEN ParsePrefix(Tail(val), 10 * acc + DigitValue(Head(val)))
    ELSE acc

parseInt(val) ==
    LET t == TrimStart(val)
        signed == t # <<>> /\ Head(t) \in {"-", "+"}
        digits == IF signed THEN Tail(t) ELSE t
        n == ParsePrefix(digits, 0)
    IN  [nan |-> digits = <<>> \/ ~IsDigit(Head(digits)),
         num |-> IF signed /\ Head(t) = "-" THEN 0 - n ELSE n]

\* Mutant: the transform without the clamp to [1, 20].
getGenerationsSchema_NoClamp(val) ==
    IF val = NoText THEN 5
    ELSE IF parseInt(val).nan THEN 5
    ELSE parseInt(val).num

\* getGenerationsSchema: the transform of the `limit` query parameter.
getGenerationsSchema(val) ==
    IF val = NoText THEN 5
    ELSE IF parseInt(val).nan THEN 5
    ELSE Min(Max(parseInt(val).num, 1), 20)

(***************************************************************************)
(* middleware/errorHandler.ts                                              *)
(***************************************************************************)
AppError(message, statusCode) ==
    [name |-> "Error", message |-> message, statusCode |-> statusCode]
ZodError(message) == [name |-> "ZodError", message |-> message, statusCode |-> 0]
PlainError(message) == [name |-> "Error", message |-> message, statusCode |-> 0]

\* The errors of the libraries: sqlite3's rejection of an INSERT that breaks
\* UNIQUE (email), and what jwt.verify throws.
UniqueEmailError ==
    [name |-> "Error", statusCode |-> 0,
     message |-> <<"SQLITE_CONSTRAINT:", "UNIQUE", "constraint", "failed:",
                   "users.email">>]
JsonWebTokenError(message) ==
    [name |-> "JsonWebTokenError", message |-> message, statusCode |-> 0]
TokenExpiredError ==
    [name |-> "TokenExpiredError", message |-> <<"jwt", "expired">>,
     statusCode |-> 0]

\* sqlite3's rejection of an INSERT that breaks the primary key of
\* generations.
UniqueIdError ==
    [name |-> "Error", statusCode |-> 0,
     message |-> <<"SQLITE_CONSTRAINT:", "UNIQUE", "constraint", "failed:",
                   "generations.id">>]

InternalServerError == <<"Internal", "server", "error">>

\* Mutant: the response carries the message whatever the status.
errorHandler_NoScrub(err) ==
    LET s0 == IF err.statusCode # 0 THEN err.statusCode ELSE 500
        s1 == IF err.name = "ZodError" THEN 400 ELSE s0
        uniqueEmail == Includes(err.message, <<"UNIQUE", "constraint",
                                               "failed:", "users.email">>)
        uniqueId == Includes(err.message, <<"UNIQUE", "constraint",
                                            "failed:", "generations.id">>)
        s2 == IF uniqueEmail THEN 400 ELSE s1
        m2 == IF uniqueEmail
              THEN <<"User", "with", "this", "email", "already", "exists">>
              ELSE err.message
        s3 == IF uniqueId THEN 500 ELSE s2
        m3 == IF uniqueId THEN <<"Generation", "ID", "conflict">> ELSE m2
        s4 == IF Includes(err.message, <<"not", "found">>)
                 \/ Includes(err.message, <<"Not", "found">>)
              THEN 404 ELSE s3
        s5 == IF err.name = "JsonWebTokenError" THEN 401 ELSE s4
        m5 == IF err.name = "JsonWebTokenError"
              THEN <<"Invalid", "token">> ELSE m3
        s6 == IF err.name = "TokenExpiredError" THEN 401 ELSE s5
        m6 == IF err.name = "TokenExpiredError"
              THEN <<"Token", "expired">> ELSE m5
    IN  [status |-> s6, message |-> m6]

\* errorHandler: the status and the message of the response for err.
errorHandler(err) ==
    LET s0 == IF err.statusCode # 0 THEN err.statusCode ELSE 500
        s1 == IF err.name = "ZodError" THEN 400 ELSE s0
        uniqueEmail == Includes(err.message, <<"UNIQUE", "constraint",
                                               "failed:", "users.email">>)
        uniqueId == Includes(err.message, <<"UNIQUE", "constraint",
                                            "failed:", "generations.id">>)
        s2 == IF uniqueEmail THEN 400 ELSE s1
        m2 == IF uniqueEmail
              THEN <<"User", "with", "this", "email", "already", "exists">>
              ELSE err.message
        s3 == IF uniqueId THEN 500 ELSE s2
        m3 == IF uniqueId THEN <<"Generation", "ID", "conflict">> ELSE m2
        s4 == IF Includes(err.message, <<"not", "found">>)
                 \/ Includes(err.message, <<"Not", "found">>)
              THEN 404 ELSE s3
        s5 == IF err.name = "JsonWebTokenError" THEN 401 ELSE s4
        m5 == IF err.name = "JsonWebTokenError"
              THEN <<"Invalid", "token">> ELSE m3
        s6 == IF err.name = "TokenExpiredError" THEN 401 ELSE s5
        m6 == IF err.name = "TokenExpiredError"
              THEN <<"Token", "expired">> ELSE m5
    IN  [status |-> s6,
         message |-> IF s6 = 500 THEN InternalServerError ELSE m6]

(***************************************************************************)
(* models/Generation (GenerationModel)                                     *)
(***************************************************************************)
Ids == 1..MaxJobs     \* the ids uuidv4 and Date.now() produce, in order

\* INSERT INTO generations ... VALUES (?, ?, ?, ?, ?, 'processing')
GenerationModel_create(gens, data, now) ==
    [i \in DOMAIN gens \cup {data.id} |->
        IF i = data.id
        THEN [id |-> data.id, user_id |-> data.user_id, prompt |-> data.prompt,
              style |-> data.style, image_path |-> data.image_path,
              result_image_path |-> NoText, status |-> "processing",
              created_at |-> now]
        ELSE gens[i]]

\* Mutant: the row is written anew from the arguments of the call, as
\* INSERT OR REPLACE would.
updateStatus_Replace(gens, id, status, resultImagePath) ==
    [i \in DOMAIN gens |->
        IF i = id
        THEN [gens[i] EXCEPT !.status = status,
                             !.result_image_path = resultImagePath,
                             !.prompt = NoText, !.image_path = NoText]
        ELSE gens[i]]

\* Mutant: the UPDATE without its WHERE clause.
updateStatus_NoWhere(gens, id, status, resultImagePath) ==
    [i \in DOMAIN gens |->
        [gens[i] EXCEPT !.status = status,
                        !.result_image_path = resultImagePath]]

\* UPDATE generations SET status = ?, result_image_path = ? WHERE id = ?
GenerationModel_updateStatus(gens, id, status, resultImagePath) ==
    [i \in DOMAIN gens |->
        IF i = id
        THEN [gens[i] EXCEPT !.status = status,
                             !.result_image_path = resultImagePath]
        ELSE gens[i]]

\* The orders of the rows in S that ORDER BY created_at DESC allows: rows
\* with equal created_at may come in any order.
Orderings(gens, S) ==
    { o \in [1..Cardinality(S) -> S] :
        /\ \A i, j \in DOMAIN o : i # j => o[i] # o[j]
        /\ \A i, j \in DOMAIN o :
              i < j => gens[o[i]].created_at >= gens[o[j]].created_at }

\* Mutant: the SELECT without its WHERE user_id = ? clause.
findByUserId_NoWhere(gens, userId, limit) ==
    LET S == DOMAIN gens IN
    { [k \in 1..Min(limit, Cardinality(S)) |-> gens[o[k]]] : o \in Orderings(gens, S) }

\* SELECT * FROM generations WHERE user_id = ? ORDER BY created_at DESC LIMIT ?
\* : the set of row sequences the statement may return.
GenerationModel_findByUserId(gens, userId, limit) ==
    LET S == { i \in DOMAIN gens : gens[i].user_id = userId } IN
    { [k \in 1..Min(limit, Cardinality(S)) |-> gens[o[k]]] : o \in Orderings(gens, S) }

(***************************************************************************)
(* controllers/generationsController.ts                                    *)
(***************************************************************************)
NoResponse ==
    [op |-> "none", user |-> 0, id |-> 0, limit |-> NoText, status |-> 0,
     message |-> NoText, body |-> <<>>, total |-> 0, stored |-> FALSE]

ErrorResponse(op, u, id, err) ==
    [op |-> op, user |-> u, id |-> id, limit |-> NoText,
     status |-> errorHandler(err).status,
     message |-> errorHandler(err).message, body |-> <<>>, total |-> 0,
     stored |-> FALSE]

\* The summary getGenerations and getGeneration send for a row.
Transformed(gen) ==
    [id |-> gen.id, prompt |-> gen.prompt, style |-> gen.style,
     status |-> gen.status, imageUrl |-> UploadUrl(gen.image_path),
     resultImageUrl |-> UploadUrl(gen.result_image_path),
     created_at |-> gen.created_at]

\* upload.single('image'): the middleware stores the file a request carries
\* and hands it to the handler as req.file.
upload_single(req) == req.file # NoUpload

\* The error createGeneration throws for a request, or NoText.
\* Mutant: the handler answers a valid request with the failure of the
\* simulated model.
CreateError_Overloaded(req) ==
    IF createGenerationSchema(req) # NoText
    THEN ZodError(createGenerationSchema(req))
    ELSE IF req.file = NoUpload
    THEN AppError(<<"Image", "file", "is", "required">>, 400)
    ELSE IF validateImageFile(req.file) # NoText
    THEN AppError(validateImageFile(req.file), 400)
    ELSE AppError(<<"Model", "overloaded">>, 503)

\* createGeneration up to the INSERT: the error it throws for req, or none.
CreateError(req) ==
    IF createGenerationSchema(req) # NoText
    THEN ZodError(createGenerationSchema(req))
    ELSE IF req.file = NoUpload
    THEN AppError(<<"Image", "file", "is", "required">>, 400)
    ELSE IF validateImageFile(req.file) # NoText
    THEN AppError(validateImageFile(req.file), 400)
    ELSE PlainError(NoText)

\* The task createGeneration starts with processGeneration(generationId,
\* file.path), waiting on the timer of simulateProcessing.  At pc "copy"
\* resultPath is the target of fs.copyFile; at pc "update" status and
\* resultPath are the arguments of the updateStatus call under way in the
\* try block, at pc "catch" those of the call of the catch block.
NewTask(path) ==
    [pc |-> "simulate", originalImagePath |-> path, status |-> "",
     resultPath |-> NoText, error |-> NoText]

\* A task whose processGeneration has returned.
Finished == [pc |-> "done", originalImagePath |-> NoText, status |-> "",
             resultPath |-> NoText, error |-> NoText]

\* A task whose processGeneration has rejected with `message`: the rejection
\* went to .catch(console.error), which printed it.
Logged(message) == [Finished EXCEPT !.pc = "logged", !.error = message]

\* A task whose processGeneration has rejected with `message` and no handler:
\* an unhandled rejection, which ends the process.
Unhandled(message) == [Finished EXCEPT !.pc = "unhandled", !.error = message]

\* Mutant: the row is inserted once the text is valid, before the file is
\* looked at.
createGeneration_InsertsFirst(u, req) ==
    LET id == Cardinality(DOMAIN tasks) + 1
        path == <<"uploads", "image-" \o ToString(id)>>
        err == CreateError(req)
    IN  /\ id \in Ids
        /\ IF createGenerationSchema(req) # NoText
           THEN UNCHANGED generations
           ELSE generations' = GenerationModel_create(generations,
                    [id |-> id, user_id |-> u, prompt |-> req.prompt,
                     style |-> req.style, image_path |-> path], clock)
        /\ IF err.message # NoText
           THEN /\ lastResponse' =
                     [ErrorResponse("createGeneration", u, 0, err)
                        EXCEPT !.stored = upload_single(req)]
                /\ UNCHANGED tasks
           ELSE /\ tasks' = [i \in DOMAIN tasks \cup {id} |->
                               IF i = id THEN NewTask(path) ELSE tasks[i]]
                /\ lastResponse' =
                     [op |-> "createGeneration", user |-> u, id |-> id,
                      limit |-> NoText, status |-> 201,
                      message |-> <<"Generation", "started">>,
                      total |-> 0, stored |-> upload_single(req),
                      body |-> << [id |-> id,
                                   prompt |-> generations'[id].prompt,
                                   style |-> generations'[id].style,
                                   status |-> generations'[id].status,
                                   created_at |-> generations'[id].created_at] >>]

createGeneration(u, req) ==
    LET id == Cardinality(DOMAIN tasks) + 1
        path == <<"uploads", "image-" \o ToString(id)>>
        err == CreateError(req)
    IN  IF err.message # NoText
        THEN /\ lastResponse' =
                  [ErrorResponse("createGeneration", u, 0, err)
                     EXCEPT !.stored = upload_single(req)]
             /\ UNCHANGED <<generations, tasks>>
        ELSE /\ id \in Ids
             /\ generations' = GenerationModel_create(generations,
                    [id |-> id, user_id |-> u, prompt |-> req.prompt,
                     style |-> req.style, image_path |-> path], clock)
             /\ tasks' = [i \in DOMAIN tasks \cup {id} |->
                            IF i = id THEN NewTask(path) ELSE tasks[i]]
             /\ lastResponse' =
                  [op |-> "createGeneration", user |-> u, id |-> id,
                   limit |-> NoText, status |-> 201,
                   message |-> <<"Generation", "started">>,
                   total |-> 0, stored |-> upload_single(req),
                   body |-> << [id |-> id, prompt |-> generations'[id].prompt,
                                style |-> generations'[id].style,
                                status |-> generations'[id].status,
                                created_at |-> generations'[id].created_at] >>]

CreateGeneration(u, req) ==
    /\ lastResponse = NoResponse
    /\ createGeneration(u, req)
    /\ UNCHANGED <<isTest, clock, studioVars, authVars>>

getGenerations(u, limitParam, rows) ==
    /\ rows \in GenerationModel_findByUserId(generations, u,
                                             getGenerationsSchema(limitParam))
    /\ lastResponse' =
         [op |-> "getGenerations", user |-> u, id |-> 0,
          limit |-> limitParam, status |-> 200, message |-> NoText,
          body |-> [k \in DOMAIN rows |-> Transformed(rows[k])],
          total |-> Len([k \in DOMAIN rows |-> Transformed(rows[k])]),
          stored |-> FALSE]

GetGenerations(u, limitParam) ==
    /\ lastResponse = NoResponse
    /\ \E rows \in GenerationModel_findByUserId(generations, u,
                       getGenerationsSchema(limitParam)) :
          getGenerations(u, limitParam, rows)
    /\ UNCHANGED <<isTest, generations, tasks, clock, studioVars, authVars>>

\* Mutant: getGeneration without the ownership check.
getGeneration_NoOwnerCheck(u, id) ==
    IF id \notin DOMAIN generations
    THEN ErrorResponse("getGeneration", u, id,
                       PlainError(<<"Generation", "not", "found">>))
    ELSE [op |-> "getGeneration", user |-> u, id |-> id, limit |-> NoText,
          status |-> 200, message |-> NoText,
          body |-> <<Transformed(generations[id])>>, total |-> 0,
          stored |-> FALSE]

getGeneration(u, id) ==
    IF id \notin DOMAIN generations
    THEN ErrorResponse("getGeneration", u, id,
                       PlainError(<<"Generation", "not", "found">>))
    ELSE IF generations[id].user_id # u
    THEN ErrorResponse("getGeneration", u, id,
                       AppError(<<"Access", "denied">>, 403))
    ELSE [op |-> "getGeneration", user |-> u, id |-> id, limit |-> NoText,
          status |-> 200, message |-> NoText,
          body |-> <<Transformed(generations[id])>>, total |-> 0,
          stored |-> FALSE]

GetGeneration(u, id) ==
    /\ lastResponse = NoResponse
    /\ lastResponse' = getGeneration(u, id)
    /\ UNCHANGED <<isTest, generations, tasks, clock, studioVars, authVars>>

\* Date.now() when the result file is named, in milliseconds.
DateNow == { "1762239600000" }

\* simulateProcessing: the timer fires and draws shouldFail.  On success
\* processGeneration starts fs.copyFile, on failure updateStatus('failed').
SimulateProcessing(id, shouldFail) ==
    /\ lastResponse = NoResponse
    /\ id \in DOMAIN tasks
    /\ tasks[id].pc = "simulate"
    /\ \E now \in DateNow :
         tasks' = [tasks EXCEPT ![id] =
          IF shouldFail
          THEN [@ EXCEPT !.pc = "update", !.status = "failed",
                         !.resultPath = NoText]
          ELSE [@ EXCEPT !.pc = "copy",
                  !.resultPath = Join(Dirname(tasks[id].originalImagePath),
                                      "result_" \o now \o ".jpg")]]
    /\ UNCHANGED <<isTest, generations, clock, lastResponse, studioVars, authVars>>

\* Mutant: the catch block passes the result path along with 'failed'.
CopyFile_KeepsResultPath(id, ok) ==
    /\ lastResponse = NoResponse
    /\ id \in DOMAIN tasks
    /\ tasks[id].pc = "copy"
    /\ tasks' = [tasks EXCEPT ![id] =
          IF ok
          THEN [@ EXCEPT !.pc = "update", !.status = "completed"]
          ELSE IF isTest
          THEN Finished
          ELSE [@ EXCEPT !.pc = "catch", !.status = "failed"]]
    /\ UNCHANGED <<isTest, generations, clock, lastResponse, studioVars, authVars>>

\* fs.copyFile settles.  When it throws, the catch block writes 'failed',
\* except under NODE_ENV === 'test'.
CopyFile(id, ok) ==
    /\ lastResponse = NoResponse
    /\ id \in DOMAIN tasks
    /\ tasks[id].pc = "copy"
    /\ tasks' = [tasks EXCEPT ![id] =
          IF ok
          THEN [@ EXCEPT !.pc = "update", !.status = "completed"]
          ELSE IF isTest
          THEN Finished
          ELSE [@ EXCEPT !.pc = "catch", !.status = "failed",
                         !.resultPath = NoText]]
    /\ UNCHANGED <<isTest, generations, clock, lastResponse, studioVars, authVars>>

\* The message updateStatus rejects with when its UPDATE changed no row.
GenerationNotFound == <<"Generation", "not", "found">>

\* Mutant: processGeneration is started without .catch(console.error).
UpdateStatus_NoCatch(id) ==
    /\ lastResponse = NoResponse
    /\ id \in DOMAIN tasks
    /\ tasks[id].pc \in {"update", "catch"}
    /\ generations' = GenerationModel_updateStatus(generations, id,
                          tasks[id].status, tasks[id].resultPath)
    /\ tasks' = [tasks EXCEPT ![id] =
          IF id \in DOMAIN generations
          THEN Finished
          ELSE IF tasks[id].pc = "catch"
          THEN Unhandled(GenerationNotFound)
          ELSE IF isTest
          THEN Finished
          ELSE [@ EXCEPT !.pc = "catch", !.status = "failed",
                         !.resultPath = NoText]]
    /\ UNCHANGED <<isTest, clock, lastResponse, studioVars, authVars>>

\* The UPDATE of GenerationModel.updateStatus runs, for the call of the try
\* block (pc "update") or of the catch block (pc "catch").  With no row of
\* that id this.changes is 0 and the call rejects with 'Generation not
\* found': from the try block the rejection lands in the catch block, which
\* returns under NODE_ENV === 'test' and calls updateStatus(id, 'failed')
\* otherwise; from the catch block it leaves processGeneration and reaches
\* .catch(console.error).
UpdateStatus(id) ==
    /\ lastResponse = NoResponse
    /\ id \in DOMAIN tasks
    /\ tasks[id].pc \in {"update", "catch"}
    /\ generations' = GenerationModel_updateStatus(generations, id,
                          tasks[id].status, tasks[id].resultPath)
    /\ tasks' = [tasks EXCEPT ![id] =
          IF id \in DOMAIN generations
          THEN Finished
          ELSE IF tasks[id].pc = "catch"
          THEN Logged(GenerationNotFound)
          ELSE IF isTest
          THEN Finished
          ELSE [@ EXCEPT !.pc = "catch", !.status = "failed",
                         !.resultPath = NoText]]
    /\ UNCHANGED <<isTest, clock, lastResponse, studioVars, authVars>>

\* GenerationModel.delete: DELETE FROM generations WHERE id = ?.
GenerationModel_delete(gens, id) ==
    [i \in DOMAIN gens \ {id} |-> gens[i]]

\* The row of a job is deleted while the server runs.
Delete(id) ==
    /\ lastResponse = NoResponse
    /\ id \in DOMAIN generations
    /\ generations' = GenerationModel_delete(generations, id)
    /\ UNCHANGED <<isTest, tasks, clock, lastResponse, studioVars, authVars>>

\* processGeneration is invoked once more for a job whose processing has
\* returned, with the image path of its row.
ProcessAgain(id) ==
    /\ lastResponse = NoResponse
    /\ id \in DOMAIN tasks
    /\ id \in DOMAIN generations
    /\ tasks[id].pc = "done"
    /\ tasks' = [tasks EXCEPT ![id] = NewTask(generations[id].image_path)]
    /\ UNCHANGED <<isTest, generations, clock, lastResponse, studioVars, authVars>>

\* A second of CURRENT_TIMESTAMP passes.  Timestamps are only compared with
\* each other (ORDER BY created_at), so the clock starts with the first row
\* and the model keeps the seconds that separate two insertions: the clock
\* is at most one second ahead of the newest row.
Tick ==
    /\ lastResponse = NoResponse
    /\ generations # <<>>
    /\ clock = generations[Len(generations)].created_at
    /\ clock' = clock + 1
    /\ UNCHANGED <<isTest, generations, tasks, lastResponse, studioVars, authVars>>

InitServer ==
    /\ isTest \in BOOLEAN
    /\ generations = <<>>
    /\ tasks = <<>>
    /\ clock = 0
    /\ lastResponse = NoResponse

\* The users table once the users of the model have signed up.
Registered ==
    [i \in Users |-> [id |-> i, email |-> <<"u" \o ToString(i), "@", "x.io">>]]

\* No request is being served.  `error` is the error the handler of the
\* request passed to errorHandler, when the model draws it from Thrown.
NoRequest ==
    [route |-> "none", token |-> [kind |-> "missing", userId |-> 0],
     body |-> [prompt |-> <<>>, style |-> "", file |-> NoUpload],
     limit |-> NoText, id |-> 0, error |-> PlainError(NoText)]

InitAccounts ==
    /\ users = Registered
    /\ signups = <<>>
    /\ lastRequest = NoRequest

\* The event loop runs one handler, timer or I/O callback at a time, and the
\* response a handler sends is on its way before the next one runs: every
\* step of the backend starts from lastResponse = NoResponse.
ResponseSent ==
    /\ lastResponse # NoResponse
    /\ lastResponse' = NoResponse
    /\ lastRequest' = NoRequest
    /\ UNCHANGED <<isTest, generations, tasks, clock, studioVars, users, signups>>

NextServer ==
    \/ \E u \in Users, req \in CreateRequests : CreateGeneration(u, req)
    \/ \E u \in Users, l \in LimitParams : GetGenerations(u, l)
    \/ \E u \in Users, id \in Ids : GetGeneration(u, id)
    \/ \E id \in Ids, shouldFail \in BOOLEAN : SimulateProcessing(id, shouldFail)
    \/ \E id \in Ids, ok \in BOOLEAN : CopyFile(id, ok)
    \/ \E id \in Ids : UpdateStatus(id)
    \/ Tick
    \/ ResponseSent

(***************************************************************************)
(* middleware/auth.ts and the routers (routes/generations.ts,              *)
(* routes/auth.ts), for the requests the rate limiter lets through         *)
(***************************************************************************)
\* The Authorization headers of the model: none, a bearer string that is no
\* JWT, a JWT whose signature does not match, a JWT past its `exp`, and
\* well-signed JWTs of the registered users and of a user the table lacks.
Tokens ==
    { [kind |-> "missing", userId |-> 0],
      [kind |-> "malformed", userId |-> 0],
      [kind |-> "tampered", userId |-> 1],
      [kind |-> "expired", userId |-> 1] }
    \cup { [kind |-> "valid", userId |-> u] : u \in Users \cup {3} }

\* jwt.verify(token, JWT_SECRET): the payload, or the error it throws.
jwt_verify(token) ==
    IF token.kind = "valid"
    THEN [error |-> PlainError(NoText), userId |-> token.userId]
    ELSE IF token.kind = "expired"
    THEN [error |-> TokenExpiredError, userId |-> 0]
    ELSE IF token.kind = "tampered"
    THEN [error |-> JsonWebTokenError(<<"invalid", "signature">>), userId |-> 0]
    ELSE [error |-> JsonWebTokenError(<<"jwt", "malformed">>), userId |-> 0]

\* error instanceof jwt.JsonWebTokenError: TokenExpiredError and
\* NotBeforeError are subclasses of JsonWebTokenError.
IsJsonWebTokenError(err) ==
    err.name \in {"JsonWebTokenError", "TokenExpiredError", "NotBeforeError"}

\* authenticateToken: the error it passes to next(), or req.user.
authenticateToken(token) ==
    IF token.kind = "missing"
    THEN [error |-> AppError(<<"Access", "token", "required">>, 401), user |-> 0]
    ELSE LET v == jwt_verify(token) IN
         IF v.error.message # NoText
         THEN [error |-> IF IsJsonWebTokenError(v.error)
                         THEN AppError(<<"Invalid", "token">>, 401)
                         ELSE v.error,
               user |-> 0]
         ELSE IF v.userId \notin DOMAIN users
         THEN [error |-> PlainError(<<"User", "not", "found">>), user |-> 0]
         ELSE [error |-> PlainError(NoText), user |-> users[v.userId].id]

\* The POST /api/generations requests and the `limit` query strings the
\* routes are tried with.
CreateInputs ==
    [prompt : { <<>>, <<" ">>, <<"a", " ", "c", "a", "t">>,
                Repeat("a", 500), Repeat("a", 501) },
     style : { "vintage", "sketch" },
     file : { NoUpload,
              [mimetype |-> "image/png", size |-> TenMB],
              [mimetype |-> "image/png", size |-> TenMB + 1],
              [mimetype |-> "image/gif", size |-> 1024],
              [mimetype |-> "image/gif", size |-> TenMB + 1] }]
LimitInputs ==
    { NoText, <<"0">>, <<"-", "3">>, <<"1">>, <<"2", "x">>,
      <<"a", "b", "c">>, <<"2", "1">> }

\* Mutant: router.post('/', upload.single('image'), authenticateToken, ...).
POST_generations_UploadFirst(t, req) ==
    /\ lastResponse = NoResponse
    /\ LET a == authenticateToken(t) IN
       IF a.error.message # NoText
       THEN /\ lastResponse' =
                 [ErrorResponse("createGeneration", 0, 0, a.error)
                    EXCEPT !.stored = upload_single(req)]
            /\ UNCHANGED <<generations, tasks>>
       ELSE createGeneration(a.user, req)
    /\ lastRequest' = [NoRequest EXCEPT !.route = "POST /api/generations",
                                        !.token = t, !.body = req]
    /\ UNCHANGED <<isTest, clock, studioVars, users, signups>>

\* router.use(authenticateToken); router.post('/', upload.single('image'),
\* createGeneration)
POST_generations(t, req) ==
    /\ lastResponse = NoResponse
    /\ LET a == authenticateToken(t) IN
       IF a.error.message # NoText
       THEN /\ lastResponse' = ErrorResponse("createGeneration", 0, 0, a.error)
            /\ UNCHANGED <<generations, tasks>>
       ELSE createGeneration(a.user, req)
    /\ lastRequest' = [NoRequest EXCEPT !.route = "POST /api/generations",
                                        !.token = t, !.body = req]
    /\ UNCHANGED <<isTest, clock, studioVars, users, signups>>

\* router.get('/', getGenerations)
GET_generations(t, limitParam) ==
    /\ lastResponse = NoResponse
    /\ LET a == authenticateToken(t) IN
       IF a.error.message # NoText
       THEN lastResponse' = ErrorResponse("getGenerations", 0, 0, a.error)
       ELSE \E rows \in GenerationModel_findByUserId(generations, a.user,
                            getGenerationsSchema(limitParam)) :
               getGenerations(a.user, limitParam, rows)
    /\ lastRequest' = [NoRequest EXCEPT !.route = "GET /api/generations", !.token = t, !.limit = limitParam]
    /\ UNCHANGED <<isTest, generations, tasks, clock, studioVars, users, signups>>

\* router.get('/:id', getGeneration)
GET_generations_id(t, id) ==
    /\ lastResponse = NoResponse
    /\ LET a == authenticateToken(t) IN
       IF a.error.message # NoText
       THEN lastResponse' = ErrorResponse("getGeneration", 0, id, a.error)
       ELSE lastResponse' = getGeneration(a.user, id)
    /\ lastRequest' = [NoRequest EXCEPT !.route = "GET /api/generations/:id", !.token = t, !.id = id]
    /\ UNCHANGED <<isTest, generations, tasks, clock, studioVars, users, signups>>

\* The handler `me` of the auth controller: the profile of req.user.
me(u) ==
    [op |-> "me", user |-> u, id |-> 0, limit |-> NoText, status |-> 200,
     message |-> NoText,
     body |-> << [id |-> users[u].id, email |-> users[u].email] >>,
     total |-> 0, stored |-> FALSE]

\* router.get('/me', authenticateToken, me)
GET_auth_me(t) ==
    /\ lastResponse = NoResponse
    /\ LET a == authenticateToken(t) IN
       IF a.error.message # NoText
       THEN lastResponse' = ErrorResponse("me", 0, 0, a.error)
       ELSE lastResponse' = me(a.user)
    /\ lastRequest' = [NoRequest EXCEPT !.route = "GET /api/auth/me", !.token = t]
    /\ UNCHANGED <<isTest, generations, tasks, clock, studioVars, users, signups>>

NextRoutes ==
    \/ \E t \in Tokens, req \in CreateInputs : POST_generations(t, req)
    \/ \E t \in Tokens, l \in LimitInputs : GET_generations(t, l)
    \/ \E t \in Tokens, id \in Ids : GET_generations_id(t, id)
    \/ \E t \in Tokens : GET_auth_me(t)
    \/ ResponseSent

(***************************************************************************)
(* controllers/authController.ts (signup), models/User.ts                  *)
(***************************************************************************)
\* An email is the sequence of its parts; z.string().email() wants a local
\* part, an "@" and a domain.
IsEmail(e) == Len(e) = 3 /\ e[2] = "@"

\* signupSchema.parse: the message of the first issue, or NoText.
signupSchema(body) ==
    IF ~IsEmail(body.email) THEN <<"Invalid", "email", "format">>
    ELSE IF Len(body.password) < 6
    THEN <<"Password", "must", "be", "at", "least", "6", "characters", "long">>
    ELSE NoText

\* The POST /api/auth/signup bodies of the model: the email of a registered
\* user, a new email and a string that is no email, each with a password
\* of six characters and one of two.
SignupBodies ==
    [email : { <<"u1", "@", "x.io">>, <<"a", "@", "x.io">>, <<"a", "x.io">> },
     password : { <<"s", "e", "c", "r", "e", "t">>, <<"p", "w">> }]

\* SELECT * FROM users WHERE email = ?
UserModel_findByEmail(us, email) ==
    { i \in DOMAIN us : us[i].email = email }

\* Mutant: the users table without UNIQUE on its email column.
UserModel_create_NoUnique(us, email) ==
    LET lastID == Cardinality(DOMAIN us) + 1
    IN  [error |-> PlainError(NoText), id |-> lastID,
         users |-> [i \in DOMAIN us \cup {lastID} |->
                      IF i = lastID THEN [id |-> lastID, email |-> email]
                      ELSE us[i]]]

\* INSERT INTO users (email, password) VALUES (?, ?), on a table whose email
\* column is UNIQUE: the error of the statement, or the table with the new
\* row and its id.
UserModel_create(us, email) ==
    LET lastID == Cardinality(DOMAIN us) + 1
    IN  IF \E i \in DOMAIN us : us[i].email = email
        THEN [error |-> UniqueEmailError, id |-> 0, users |-> us]
        ELSE [error |-> PlainError(NoText), id |-> lastID,
              users |-> [i \in DOMAIN us \cup {lastID} |->
                           IF i = lastID THEN [id |-> lastID, email |-> email]
                           ELSE us[i]]]

\* A signup that has answered with the error err.
SignupFailed(body, err) ==
    [pc |-> "done", body |-> body, error |-> err,
     status |-> errorHandler(err).status,
     message |-> errorHandler(err).message, userId |-> 0]

\* POST /api/auth/signup: the handler validates the body and awaits
\* UserModel.findByEmail.
POST_auth_signup(body) ==
    /\ Len(signups) < MaxSignups
    /\ signups' = Append(signups,
          IF signupSchema(body) # NoText
          THEN SignupFailed(body, ZodError(signupSchema(body)))
          ELSE [pc |-> "find", body |-> body, error |-> PlainError(NoText),
                status |-> 0, message |-> NoText, userId |-> 0])
    /\ UNCHANGED <<studioVars, serverVars, users, lastRequest>>

\* findByEmail resolves: the handler throws when the email is taken and
\* otherwise awaits bcrypt.hash.
signup_findByEmail(i) ==
    /\ signups[i].pc = "find"
    /\ signups' = [signups EXCEPT ![i] =
          IF UserModel_findByEmail(users, signups[i].body.email) # {}
          THEN SignupFailed(signups[i].body,
                   AppError(<<"User", "with", "this", "email", "already",
                              "exists">>, 400))
          ELSE [@ EXCEPT !.pc = "hash"]]
    /\ UNCHANGED <<studioVars, serverVars, users, lastRequest>>

\* bcrypt.hash resolves: the handler awaits UserModel.create.
signup_hash(i) ==
    /\ signups[i].pc = "hash"
    /\ signups' = [signups EXCEPT ![i].pc = "create"]
    /\ UNCHANGED <<studioVars, serverVars, users, lastRequest>>

\* UserModel.create settles: the handler answers 201 with the new user, or
\* the error of the INSERT goes to errorHandler.
signup_create(i) ==
    /\ signups[i].pc = "create"
    /\ LET r == UserModel_create(users, signups[i].body.email) IN
       /\ users' = r.users
       /\ signups' = [signups EXCEPT ![i] =
             IF r.error.message # NoText
             THEN SignupFailed(signups[i].body, r.error)
             ELSE [@ EXCEPT !.pc = "done", !.status = 201,
                            !.message = <<"User", "created", "successfully">>,
                            !.userId = r.id]]
    /\ UNCHANGED <<studioVars, serverVars, lastRequest>>

NextSignup ==
    \/ \E body \in SignupBodies : POST_auth_signup(body)
    \/ \E i \in DOMAIN signups : signup_findByEmail(i)
    \/ \E i \in DOMAIN signups : signup_hash(i)
    \/ \E i \in DOMAIN signups : signup_create(i)

(***************************************************************************)
(* Specifications                                                          *)
(***************************************************************************)
Init == InitStudio /\ InitServer /\ InitAccounts

\* The Studio runs against a mock of the network: the mode of the backend is
\* of no matter to it.
InitMocked == InitStudio /\ InitServer /\ InitAccounts /\ ~isTest

SpecStudio == InitMocked /\ [][NextStudio]_vars

\* The Studio with the style options.
SpecForm == InitMocked /\ [][NextForm]_vars

\* The Studio, with the clicks on the Generate button that find it disabled.
NextSubmit == NextStudio \/ ClickGenerateDisabled
SpecSubmit == InitMocked /\ [][NextSubmit]_vars

SpecServer == Init /\ [][NextServer]_vars

\* Signup requests, interleaved at every await of the handler.
SpecSignup == Init /\ [][NextSignup]_vars

\* The routes, tried with every kind of token and of request.
SpecRoutes == Init /\ [][NextRoutes]_vars

\* The errors the handlers, the middleware, the models, jsonwebtoken, zod
\* and sqlite3 pass to errorHandler.
Thrown ==
    { AppError(<<"User", "not", "authenticated">>, 401),
      AppError(<<"Access", "token", "required">>, 401),
      AppError(<<"Invalid", "token">>, 401),
      AppError(<<"Image", "file", "is", "required">>, 400),
      AppError(<<"Access", "denied">>, 403),
      ZodError(<<"Prompt", "is", "required">>),
      JsonWebTokenError(<<"jwt", "malformed">>),
      TokenExpiredError,
      UniqueEmailError,
      UniqueIdError,
      PlainError(<<"User", "not", "found">>),
      PlainError(<<"Generation", "not", "found">>),
      PlainError(<<"Database", "not", "initialized">>),
      PlainError(<<"SQLITE_BUSY:", "database", "is", "locked">>) }

\* The handlers asyncHandler wraps.
Handlers == { "createGeneration", "getGenerations", "getGeneration", "me" }

\* asyncHandler: the handler op, serving user u (0: none) for the job id
\* (0: none), rejects with err, which goes to next() and to errorHandler.
asyncHandler(op, u, id, err) ==
    /\ lastResponse = NoResponse
    /\ lastResponse' = ErrorResponse(op, u, id, err)
    /\ lastRequest' = [NoRequest EXCEPT !.route = op, !.id = id, !.error = err]
    /\ UNCHANGED <<isTest, generations, tasks, clock, studioVars, users, signups>>

NextErrors ==
    \/ \E op \in Handlers, u \in Users \cup {0}, id \in Ids \cup {0},
          err \in Thrown : asyncHandler(op, u, id, err)
    \/ ResponseSent
SpecErrors == Init /\ [][NextErrors]_vars

\* The error responses of POST /api/generations: those of authenticateToken,
\* of createGeneration for the requests of CreateInputs, and of every error
\* a handler passes to errorHandler.
PostErrorResponses ==
    { errorHandler(authenticateToken(t).error) :
        t \in { k \in Tokens : authenticateToken(k).error.message # NoText } }
    \cup { errorHandler(CreateError(req)) :
             req \in { q \in CreateInputs : CreateError(q).message # NoText } }
    \cup { errorHandler(err) : err \in Thrown }

\* What err.response?.data?.message is in the Studio for a rejected POST
\* /api/generations: the message of an error response, or nothing when no
\* response came.
PostMessages == { r.message : r \in PostErrorResponses } \cup { NoText }

\* The Studio against this backend.  TimerFires is left out: no retry timer
\* is ever pending here (C30_NoRetryAgainstServer).
NextComposed ==
    \/ \E f \in Files : handleFileSelect(f)
    \/ clearFile
    \/ \E p \in Prompts : setPrompt(p)
    \/ ClickGenerate
    \/ \E i \in DOMAIN calls : CreateResolves(i)
    \/ \E i \in DOMAIN calls : ReloadSettles(i)
    \/ \E i \in DOMAIN calls, m \in PostMessages : CreateRejects(i, m)
    \/ ClickStop
SpecComposed == InitMocked /\ [][NextComposed]_vars

\* The backend while rows of the generations table are deleted.
NextGone ==
    \/ \E u \in Users, req \in CreateRequests : CreateGeneration(u, req)
    \/ \E u \in Users, id \in Ids : GetGeneration(u, id)
    \/ \E id \in Ids, shouldFail \in BOOLEAN : SimulateProcessing(id, shouldFail)
    \/ \E id \in Ids, ok \in BOOLEAN : CopyFile(id, ok)
    \/ \E id \in Ids : UpdateStatus(id)
    \/ \E id \in Ids : Delete(id)
    \/ ResponseSent
SpecGone == Init /\ [][NextGone]_vars

\* The backend when processGeneration is invoked again for finished jobs.
NextTwice ==
    \/ \E u \in Users, req \in CreateRequests : CreateGeneration(u, req)
    \/ \E u \in Users, id \in Ids : GetGeneration(u, id)
    \/ \E id \in Ids, shouldFail \in BOOLEAN : SimulateProcessing(id, shouldFail)
    \/ \E id \in Ids, ok \in BOOLEAN : CopyFile(id, ok)
    \/ \E id \in Ids : UpdateStatus(id)
    \/ \E id \in Ids : ProcessAgain(id)
    \/ ResponseSent
SpecTwice == Init /\ [][NextTwice]_vars

\* The event loop serves timers and I/O callbacks in turn with the incoming
\* requests: a callback that is ready again and again is run, however many
\* requests arrive, and a response on its way leaves.
Fairness ==
    /\ WF_vars(ResponseSent)
    /\ \A id \in Ids : SF_vars(\E f \in BOOLEAN : SimulateProcessing(id, f))
    /\ \A id \in Ids : SF_vars(\E ok \in BOOLEAN : CopyFile(id, ok))
    /\ \A id \in Ids : SF_vars(UpdateStatus(id))

SpecServerFair == SpecServer /\ Fairness

(***************************************************************************)
(* Properties of the client generation controller (SpecStudio)             *)
(***************************************************************************)
InFlight == { i \in DOMAIN calls : calls[i].pc = "create" }
TimersPending == { i \in DOMAIN calls : calls[i].pc = "timer" }
Rejections == { i \in DOMAIN calls : calls[i].reply = "overloaded" }
AllOverloaded ==
    \A i \in DOMAIN calls : calls[i].reply \in {"pending", "overloaded"}
ShowsRetrying == Includes(error, <<"Retrying...">>)
Idle == ~isGenerating /\ retryCount = 0 /\ abortController = NoController

\* C1: when every createGeneration call is rejected with 'Model overloaded',
\* one user submit makes at most 1 + MAX_RETRIES calls, and after the
\* (1 + MAX_RETRIES)-th rejection the final error is shown without
\* 'Retrying' and no retry timer is pending.
C1_RetryBound ==
    (submits = 1 /\ AllOverloaded) =>
        /\ Len(calls) <= 1 + MAX_RETRIES
        /\ Cardinality(Rejections) = 1 + MAX_RETRIES =>
              /\ ~ShowsRetrying
              /\ TimersPending = {}

\* C2: once the user has clicked Stop, no createGeneration call is issued
\* until the user submits again: the call count stops growing.
C2_NoCallAfterCancel ==
    [][(cancelled /\ cancelled') => Len(calls') = Len(calls)]_vars

\* A step of the controller that is not an action of the user on the form.
ControllerStep ==
    \/ ClickStop
    \/ \E i \in DOMAIN calls : CreateResolves(i)
    \/ \E i \in DOMAIN calls : ReloadSettles(i)
    \/ \E i \in DOMAIN calls, m \in ServerMessages : CreateRejects(i, m)
    \/ \E i \in DOMAIN calls : TimerFires(i)

\* C3: after a click on Stop the controller is idle and shows no error, and
\* this stays so after the rejection of the aborted request was delivered
\* and after any later step of the controller, until the user acts again.
C3_CancelShowsNoError ==
    [][(cancelled' /\ ControllerStep) => (Idle /\ error = NoError)']_vars

\* C4: at most one attempt is active at a time: a createGeneration request
\* outstanding or a retry timer pending, never two of them.
C4_OneAttemptActive ==
    Cardinality(InFlight) + Cardinality(TimersPending) <= 1

\* C14: when a createGeneration call is rejected with a server message that
\* does not contain 'Model overloaded' (or with none), the controller shows
\* that message (or 'Generation failed'), sets the retry counter to 0, is
\* idle, schedules no retry and issues no call; when the rejected call is
\* the first of the only submit, it stays the only call.
C14_NonRetryableError ==
    [][calls' # calls =>
        /\ \A i \in DOMAIN calls, m \in ServerMessages :
              (/\ calls[i].pc = "create"
               /\ ~Includes(m, ModelOverloaded)
               /\ CreateRejects(i, m)) =>
                  /\ error' = IF m # NoText THEN m ELSE GenerationFailed
                  /\ Idle'
                  /\ calls'[i].pc = "done"
                  /\ Len(calls') = Len(calls)
        /\ (submits' = 1 /\ calls' # <<>> /\ calls'[1].reply = "error") =>
              Len(calls') = 1]_vars

\* A retry was rejected with 'Invalid prompt': the message is shown and the
\* controller is idle.
C14_Witness ==
    /\ Len(calls) > 1
    /\ calls[Len(calls)].reply = "error"
    /\ error = <<"Invalid", "prompt">>
    /\ Idle

\* C20: a createGeneration call that succeeds requests the job list once;
\* when that request settles, resolved or rejected, the retry counter is 0 and
\* the controller is idle, the call still counts as a success and the
\* displayed error is what it was: the refresh shows none of its own.
C20_SuccessReloadsOnce ==
    [][calls' # calls =>
        \A i \in DOMAIN calls :
          calls'[i] # calls[i] =>
            /\ CreateResolves(i) =>
                  (calls[i].list = "" /\ calls'[i].list = "pending")
            /\ calls[i].list # "" =>
                  (calls'[i].list = calls[i].list \/ calls[i].list = "pending")
            /\ (calls'[i].list # "" /\ calls[i].list = "") => CreateResolves(i)
            /\ \A ok \in BOOLEAN :
                  loadRecentGenerations(i, ok) =>
                      /\ Idle'
                      /\ error' = error
                      /\ calls'[i].reply = "ok"
                      /\ calls'[i].pc = "done"
                      /\ calls'[i].list = IF ok THEN "ok" ELSE "failed"]_vars

\* A retry has succeeded, its list refresh has failed, and the controller is
\* idle without an error.
C20_Witness ==
    /\ \E i \in DOMAIN calls :
          /\ i > 1
          /\ calls[i].reply = "ok"
          /\ calls[i].list = "failed"
    /\ Idle
    /\ error = NoError

(***************************************************************************)
(* Properties of the backend (SpecServer, SpecServerFair)                  *)
(***************************************************************************)
Terminal == {"completed", "failed"}

\* C5: every job created eventually leaves `processing` for `completed` or
\* `failed`.
C5_EventuallyTerminal ==
    \A id \in Ids :
        (id \in DOMAIN generations) ~>
            (id \in DOMAIN generations /\ generations[id].status \in Terminal)

\* C6: once a job is `completed` or `failed`, no step changes its status.
C6_TerminalIsFinal ==
    [][\A id \in DOMAIN generations :
          generations[id].status \in Terminal =>
              /\ id \in DOMAIN generations'
              /\ generations'[id].status = generations[id].status]_vars

\* Two jobs have been processed, one to `completed` and one to `failed`.
C6_Witness ==
    \E a, b \in DOMAIN generations :
        /\ generations[a].status = "completed"
        /\ generations[b].status = "failed"

\* C7: in every job that getGeneration or getGenerations returns,
\* resultImageUrl is non-null exactly when the status is `completed`.
C7_ResultIffCompleted ==
    (lastResponse.op \in {"getGeneration", "getGenerations"}
        /\ lastResponse.status = 200) =>
        \A k \in DOMAIN lastResponse.body :
            (lastResponse.body[k].resultImageUrl # NoText)
                <=> (lastResponse.body[k].status = "completed")

\* getGenerations has returned a completed job next to a failed one.
C7_Witness ==
    /\ lastResponse.op = "getGenerations"
    /\ \E j, k \in DOMAIN lastResponse.body :
          /\ lastResponse.body[j].status = "completed"
          /\ lastResponse.body[j].resultImageUrl # NoText
          /\ lastResponse.body[k].status = "failed"

\* C8: a 201 of createGeneration carries status `processing`, and when it is
\* sent the job is in the store, its processing has not run, getGeneration
\* returns it to its owner and getGenerations returns it to its owner
\* whatever the limit.
C8_ObservableAtOnce ==
    (lastResponse.op = "createGeneration" /\ lastResponse.status = 201) =>
        LET r == lastResponse IN
        /\ r.body[1].status = "processing"
        /\ r.id \in DOMAIN generations
        /\ generations[r.id].status = "processing"
        /\ tasks[r.id].pc = "simulate"
        /\ getGeneration(r.user, r.id).status = 200
        /\ \A l \in LimitParams :
             \A rows \in GenerationModel_findByUserId(generations, r.user,
                                                      getGenerationsSchema(l)) :
                \E k \in DOMAIN rows : rows[k].id = r.id

\* C9: getGeneration answers 200 with the job exactly when the job exists and
\* belongs to the caller, 403 'Access denied' when it belongs to another
\* user, 404 when it does not exist, and sends no job with an error.
C9_GetGenerationOwnership ==
    lastResponse.op = "getGeneration" =>
        LET r == lastResponse
            exists == r.id \in DOMAIN generations
            own == exists /\ generations[r.id].user_id = r.user
        IN  /\ r.status = 200 <=> own
            /\ own => (Len(r.body) = 1 /\ r.body[1].id = r.id)
            /\ (exists /\ ~own) =>
                  (r.status = 403 /\ r.message = <<"Access", "denied">>)
            /\ ~exists => r.status = 404
            /\ r.status # 200 => r.body = <<>>

\* getGeneration has refused a job to a user who does not own it.
C9_Witness ==
    /\ lastResponse.op = "getGeneration"
    /\ lastResponse.status = 403
    /\ lastResponse.id \in DOMAIN generations

\* The rows of the store that belong to user u.
OwnRows(u) ==
    [i \in { j \in DOMAIN generations : generations[j].user_id = u } |->
        generations[i]]

\* C10: every job getGenerations returns belongs to the caller, and the
\* response is one the store without the other users' jobs gives: as many
\* jobs as the limit and the caller's own jobs allow.
C10_OnlyOwnJobs ==
    lastResponse.op = "getGenerations" =>
        LET r == lastResponse
            limit == getGenerationsSchema(r.limit)
        IN  /\ \A k \in DOMAIN r.body :
                  generations[r.body[k].id].user_id = r.user
            /\ Len(r.body) = Min(limit, Cardinality(DOMAIN OwnRows(r.user)))
            /\ \E rows \in GenerationModel_findByUserId(OwnRows(r.user),
                                                        r.user, limit) :
                  r.body = [k \in DOMAIN rows |-> Transformed(rows[k])]

\* getGenerations with limit 1 has returned the caller's job while the store
\* holds a job of another user.
C10_Witness ==
    /\ lastResponse.op = "getGenerations"
    /\ lastResponse.limit = <<"1">>
    /\ Len(lastResponse.body) = 1
    /\ \E i \in DOMAIN generations : generations[i].user_id # lastResponse.user

\* C17: when processGeneration has returned, whether or not one of its steps
\* threw, the job is `completed` or `failed`, never `processing`, and a
\* `failed` job has no result path; in normal mode and in test mode.
C17_ThrowEndsFailed ==
    \A id \in DOMAIN tasks :
        tasks[id].pc = "done" =>
            /\ generations[id].status \in Terminal
            /\ generations[id].status = "failed" =>
                  generations[id].result_image_path = NoText

\* A request whose token authenticateToken accepts.
Authenticated(t) == authenticateToken(t).error.message = NoText

\* The inputs C11 lists as rejected: a missing or over-long prompt, a style
\* outside the four options, a missing image, an image of a wrong type or an
\* oversized one.
Rejected(req) ==
    \/ Len(req.prompt) = 0
    \/ Len(req.prompt) > 500
    \/ req.style \notin {"realistic", "artistic", "cartoon", "vintage"}
    \/ req.file = NoUpload
    \/ req.file.mimetype \notin {"image/jpeg", "image/jpg", "image/png"}
    \/ req.file.size > TenMB

\* The router has just served an authenticated POST /api/generations.
CreateServed ==
    /\ lastRequest.route = "POST /api/generations"
    /\ Authenticated(lastRequest.token)

\* C11: an authenticated POST /api/generations whose input createGeneration
\* rejects is answered 400 and leaves the generations table and the
\* processor's tasks exactly as they were; and every answer of
\* createGeneration other than 201 leaves them so.
C11_RejectionLeavesStore ==
    [][/\ (CreateServed' /\ lastRequest = NoRequest
              /\ Rejected(lastRequest'.body)) =>
                /\ lastResponse'.status = 400
                /\ generations' = generations
                /\ tasks' = tasks
       /\ (CreateServed' /\ lastRequest = NoRequest
              /\ lastResponse'.status # 201) =>
                (generations' = generations /\ tasks' = tasks)]_vars

\* A request with a valid prompt and style but an image of a wrong type has
\* been answered 400 while the table holds a job.
C11_Witness ==
    /\ CreateServed
    /\ lastRequest.body.file.mimetype = "image/gif"
    /\ lastRequest.body.style = "vintage"
    /\ Len(lastRequest.body.prompt) = 500
    /\ lastResponse.status = 400
    /\ DOMAIN generations # {}
    /\ DOMAIN tasks = DOMAIN generations

\* C12: with a valid style and image, an authenticated POST /api/generations
\* is accepted (201) exactly when the prompt's length after trimming is
\* between 1 and 500, and is answered 400 otherwise.
C12_PromptLengthAfterTrim ==
    (/\ CreateServed
     /\ lastRequest.body.style = "vintage"
     /\ lastRequest.body.file = [mimetype |-> "image/png", size |-> TenMB]) =>
        /\ lastResponse.status = 201 <=>
              Len(Trim(lastRequest.body.prompt)) \in 1..500
        /\ lastResponse.status \in {201, 400}

\* C13: with a valid prompt and style, a missing image, an image that is
\* neither JPEG nor PNG and an image over 10 MB are each answered 400 with
\* their own message; a wrong-typed oversized image gets the wrong-type
\* message; an image of exactly 10 MB is accepted.
C13_ImageMessages ==
    (/\ CreateServed
     /\ Len(lastRequest.body.prompt) \in 1..500
     /\ lastRequest.body.style = "vintage") =>
        LET r == lastResponse
            file == lastRequest.body.file
            typeOk == file.mimetype \in {"image/jpeg", "image/jpg", "image/png"}
        IN  /\ file = NoUpload =>
                  /\ r.status = 400
                  /\ r.message = <<"Image", "file", "is", "required">>
            /\ (file # NoUpload /\ ~typeOk) =>
                  /\ r.status = 400
                  /\ r.message = <<"Only", "JPEG", "and", "PNG", "files",
                                   "are", "allowed">>
            /\ (typeOk /\ file.size > TenMB) =>
                  /\ r.status = 400
                  /\ r.message = <<"File", "size", "must", "be", "less",
                                   "than", "10MB">>
            /\ (typeOk /\ file.size = TenMB) => r.status = 201

\* An oversized image of a wrong type has been refused with the wrong-type
\* message, and an image of exactly 10 MB was accepted before.
C13_Witness ==
    /\ CreateServed
    /\ Len(lastRequest.body.prompt) \in 1..500
    /\ lastRequest.body.style = "vintage"
    /\ lastRequest.body.file = [mimetype |-> "image/gif", size |-> TenMB + 1]
    /\ lastResponse.status = 400
    /\ DOMAIN generations # {}

\* C15: on every route behind authenticateToken an expired token is answered
\* 401 'Token expired', a tampered or malformed one 401 'Invalid token', a
\* missing one 401 'Access token required', and the handler does not run.
C15_TokenMessages ==
    (lastRequest # NoRequest /\ lastRequest.token.kind # "valid") =>
        /\ lastResponse.status = 401
        /\ lastResponse.user = 0
        /\ lastResponse.body = <<>>
        /\ lastRequest.token.kind = "expired" =>
              lastResponse.message = <<"Token", "expired">>
        /\ lastRequest.token.kind \in {"tampered", "malformed"} =>
              lastResponse.message = <<"Invalid", "token">>
        /\ lastRequest.token.kind = "missing" =>
              lastResponse.message = <<"Access", "token", "required">>

\* C18: a request to POST /api/generations, GET /api/generations or
\* GET /api/generations/:id without a valid bearer token is answered 401
\* before the upload middleware and the controller run: no file is stored,
\* no row is created or read, no task is started.
C18_AuthBeforeUpload ==
    [][(/\ lastRequest = NoRequest
        /\ lastRequest'.route \in {"POST /api/generations",
                                   "GET /api/generations",
                                   "GET /api/generations/:id"}
        /\ lastRequest'.token.kind # "valid") =>
            /\ lastResponse'.status = 401
            /\ ~lastResponse'.stored
            /\ lastResponse'.body = <<>>
            /\ lastResponse'.user = 0
            /\ generations' = generations
            /\ tasks' = tasks]_vars

\* A POST /api/generations that carries an image and a tampered token has
\* been answered 401 while the table holds a job.
C18_Witness ==
    /\ lastRequest.route = "POST /api/generations"
    /\ lastRequest.token.kind = "tampered"
    /\ lastRequest.body.file # NoUpload
    /\ lastResponse.status = 401
    /\ DOMAIN generations # {}

\* The limit C19 states for each `limit` query string of LimitInputs: 5 when
\* it is absent or does not parse to an integer, otherwise the integer
\* parseInt reads, clamped to 1..20.
StatedLimit(l) ==
    CASE l = NoText -> 5
      [] l = <<"a", "b", "c">> -> 5
      [] l = <<"0">> -> 1
      [] l = <<"-", "3">> -> 1
      [] l = <<"1">> -> 1
      [] l = <<"2", "x">> -> 2
      [] l = <<"2", "1">> -> 20

\* C19: getGenerations applies the stated limit, returns as many of the
\* caller's jobs as the limit allows and never more, and reports as `total`
\* the number of jobs it returns.
C19_LimitClamp ==
    (lastRequest.route = "GET /api/generations" /\ lastResponse.status = 200) =>
        LET r == lastResponse
            limit == StatedLimit(lastRequest.limit)
            own == Cardinality(DOMAIN OwnRows(r.user))
        IN  /\ getGenerationsSchema(lastRequest.limit) = limit
            /\ Len(r.body) <= limit
            /\ Len(r.body) = Min(limit, own)
            /\ r.total = Len(r.body)

\* getGenerations with limit -3 has returned one job of a caller who owns
\* two.
C19_Witness ==
    /\ lastRequest.route = "GET /api/generations"
    /\ lastRequest.limit = <<"-", "3">>
    /\ Len(lastResponse.body) = 1
    /\ lastResponse.total = 1
    /\ Cardinality(DOMAIN OwnRows(lastResponse.user)) = 2

\* A signup whose body signupSchema accepts and that has been answered.
Answered(k) ==
    /\ signups[k].pc = "done"
    /\ IsEmail(signups[k].body.email)
    /\ Len(signups[k].body.password) >= 6

\* C16: however signups interleave, the users table never holds two rows
\* with one email, at most one signup per email is answered 201, and every
\* other answered signup with a valid body is answered 400 with a message
\* that contains 'already exists'.
C16_OneRowPerEmail ==
    /\ \A i, j \in DOMAIN users : users[i].email = users[j].email => i = j
    /\ \A k \in DOMAIN signups :
          Answered(k) =>
              \/ /\ signups[k].status = 201
                 /\ signups[k].userId \in DOMAIN users
                 /\ signups[k].userId \notin DOMAIN Registered
                 /\ users[signups[k].userId].email = signups[k].body.email
                 /\ \A l \in DOMAIN signups :
                       signups[l].userId = signups[k].userId => l = k
              \/ /\ signups[k].status = 400
                 /\ Includes(signups[k].message, <<"already", "exists">>)
                 /\ signups[k].userId = 0

\* Two signups with one new email have both passed findByEmail; one created
\* the row and the INSERT of the other failed on the UNIQUE constraint.
C16_Witness ==
    \E k, l \in DOMAIN signups :
        /\ signups[k].body.email = signups[l].body.email
        /\ signups[k].status = 201
        /\ signups[l].status = 400
        /\ signups[l].error = UniqueEmailError

(***************************************************************************)
(* Further properties of the client generation controller                  *)
(***************************************************************************)
\* C21: in every reachable state the retry counter is between 0 and
\* MAX_RETRIES.
C21_RetryCountBounded == retryCount \in 0..MAX_RETRIES

\* C22: when a rejection of the only attempt schedules its k-th retry, the
\* message shown is '<server message>. Retrying... (k/3)' with k the number
\* of retries scheduled so far for the attempt, and the retry counter is k.
C22_RetryProgressShown ==
    [][(calls' # calls /\ submits = 1 /\ ~cancelled) =>
        \A i \in DOMAIN calls :
            (calls[i].pc = "create" /\ calls'[i].pc = "timer") =>
                LET k == Cardinality(Rejections') IN
                /\ retryCount' = k
                /\ \E m \in ServerMessages : error' = Retrying(m, k)]_vars

\* C23: a click on Generate with no image attached or with a prompt that is
\* empty after trimming issues no call, shows 'Please select an image and
\* enter a prompt' and leaves isGenerating, the retry counter and the
\* cancellation handle as they were.
C23_InvalidSubmitShowsMessage ==
    [][(submits' = submits + 1
          /\ (selectedFile = NoFile \/ Trim(prompt) = <<>>)) =>
            /\ calls' = calls
            /\ error' = SelectPrompt
            /\ isGenerating' = isGenerating
            /\ retryCount' = retryCount
            /\ abortController' = abortController]_vars

\* C28: a call is issued either by a click on Generate or by the retry timer
\* of an activation whose call was rejected with 'Model overloaded', and a
\* call the timer issues carries the prompt, the style and the image of the
\* call it retries, whatever the form holds by then.
C28_RetryResubmitsPayload ==
    [][Len(calls') > Len(calls) =>
        \/ submits' = submits + 1
        \/ \E i \in DOMAIN calls :
              /\ calls[i].pc = "timer"
              /\ calls[i].reply = "overloaded"
              /\ calls'[i].pc = "done"
              /\ calls'[Len(calls')].data = calls[i].data
              /\ calls'[Len(calls')].closure.submit = calls[i].closure.submit]_vars

\* The retry of the only submit is in flight with the submitted payload
\* while the form holds another style, a blank prompt and no image.
C28_Witness ==
    /\ submits = 1
    /\ Len(calls) = 2
    /\ calls[2].pc = "create"
    /\ calls[2].data.style # style
    /\ calls[2].data.prompt # Trim(prompt)
    /\ calls[2].data.image # NoFile
    /\ selectedFile = NoFile

\* Every exit of an activation of handleGenerate that passed the guard sets
\* isGenerating to false and the stored cancellation handle to null.
ExitsResetGenerating ==
    [][calls' # calls =>
        \A i \in DOMAIN calls :
            (calls[i].pc \in {"create", "reload"}
               /\ calls'[i].pc \in {"done", "timer"}) =>
                (~isGenerating' /\ abortController' = NoController)]_vars

\* C29: as every exit of handleGenerate resets isGenerating and the
\* cancellation handle (ExitsResetGenerating), the controller is not
\* generating while a retry timer is pending: isGenerating is false, so no
\* Stop button is rendered, and the cancellation handle is null.
C29_NotGeneratingWhileWaiting ==
    TimersPending # {} => (~isGenerating /\ abortController = NoController)

\* C24: when the row of a job is gone at a status write of its processor,
\* the write creates and alters no row, its rejection stays in the
\* background task (it is caught by the catch block or printed by
\* .catch(console.error) as 'Generation not found', never unhandled), and
\* no response is changed.
C24_MissingRowContained ==
    [][tasks' # tasks =>
        \A id \in DOMAIN tasks :
            (/\ tasks[id].pc \in {"update", "catch"}
             /\ tasks'[id] # tasks[id]
             /\ id \notin DOMAIN generations) =>
                /\ generations' = generations
                /\ lastResponse' = lastResponse
                /\ tasks'[id].pc \in {"done", "catch", "logged"}
                /\ tasks'[id].pc = "logged" =>
                       tasks'[id].error = GenerationNotFound]_vars

\* The rejection of the write of a deleted job has been printed and a later
\* POST /api/generations has been answered 201.
C24_Witness ==
    /\ \E id \in DOMAIN tasks :
          tasks[id].pc = "logged" /\ id \notin DOMAIN generations
    /\ lastResponse.status = 201

\* C25: when processGeneration runs a second time for a job, its terminal
\* write leaves the status and the result path of the first run as they
\* are.
C25_SecondWriteKeepsFirst ==
    [][generations' # generations =>
        \A id \in DOMAIN generations :
            (/\ generations[id].status \in Terminal
             /\ tasks[id].pc \in {"update", "catch"}
             /\ tasks'[id].pc = "done") =>
                /\ generations'[id].status = generations[id].status
                /\ generations'[id].result_image_path =
                       generations[id].result_image_path]_vars

\* C26: a step that changes the generations table keeps every row and, in
\* every row, id, user_id, prompt, style, image_path and created_at; the
\* only row whose status or result path changes is the row of the job
\* whose processor performs its write in that step.
C26_WriteTouchesOnlyTarget ==
    [][generations' # generations =>
        \A id \in DOMAIN generations :
            /\ id \in DOMAIN generations'
            /\ \A f \in {"id", "user_id", "prompt", "style", "image_path",
                          "created_at"} :
                   generations'[id][f] = generations[id][f]
            /\ generations'[id] # generations[id] =>
                   (tasks[id].pc \in {"update", "catch"}
                      /\ tasks'[id].pc = "done")]_vars

\* The processor of one job has written `completed` with a result path
\* while another job of the same user is still `processing`.
C26_Witness ==
    \E id \in DOMAIN generations, other \in DOMAIN generations :
        /\ id # other
        /\ tasks[id].pc = "done"
        /\ generations[id].status = "completed"
        /\ generations[id].result_image_path # NoText
        /\ generations[id].prompt # NoText
        /\ generations[other].status = "processing"
        /\ generations[other].user_id = generations[id].user_id

\* The message errorHandler has for the kind of err: its own for an expired
\* or invalid token and a taken email, the message of the error otherwise.
SpecificMessage(err) ==
    IF err.name = "TokenExpiredError" THEN <<"Token", "expired">>
    ELSE IF err.name = "JsonWebTokenError" THEN <<"Invalid", "token">>
    ELSE IF err = UniqueEmailError
    THEN <<"User", "with", "this", "email", "already", "exists">>
    ELSE err.message

====
